---- MODULE Spec2Model ----
(***************************************************************************)
(* Context assembly of the BBNJ question-answering bot                     *)
(* (src/gradioserver.py): DocumentStringBuilder.addChunk, its __str__      *)
(* rendering, and the chunksToText loop that feeds retrieved chunks to a   *)
(* fresh builder until the first OverflowError.                            *)
(*                                                                         *)
(* Python values are represented as follows.  A str is a TLA+ string; the  *)
(* value None is the reserved string None below, which is no member of any *)
(* text alphabet of the model.  A dict is the sequence of its entries in   *)
(* insertion order (the order Python iterates it in), each entry carrying  *)
(* its key.  A list is a sequence.                                         *)
(***************************************************************************)
EXTENDS Integers, Sequences, FiniteSets, TLC

VARIABLES
    maxTokens,   \* self.maxTokens
    tokenCount,  \* self.tokenCount
    documents,   \* self.documents: entries [documentId, documentTitle, insertOrder, headers]
    corpus,      \* which chunk records the vector index returns in this run: "budget" or "render"
    calls,       \* number of addChunk calls made on the builder so far
    accepted,    \* history: the chunk records whose addChunk call returned normally
    last,        \* history: the latest addChunk call, with the state it was made in
    out,         \* the value of the latest str(builder), and whether it is current
    chunks,      \* chunksToText: the argument list
    idx,         \* chunksToText: 1-based position of the for loop in chunks
    pc,          \* "builder": direct use of a builder; "loop", "render", "returned",
                 \* "raised": chunksToText; "new": no builder constructed yet
    other,       \* a second, concurrent chunksToText call: its builder, list, position and result
    query        \* a runquery call made by runbutton_click_helper

vars == <<maxTokens, tokenCount, documents, corpus, calls, accepted, last, out, chunks, idx, pc,
          other, query>>

(***************************************************************************)
(* Bounds of the model.                                                    *)
(***************************************************************************)
MaxCalls == 3      \* addChunk calls made on one builder
MaxBudget == 3     \* the small budgets range over 1..MaxBudget
MaxChunks == 3     \* length of the list given to chunksToText

(***************************************************************************)
(* Program constants.                                                      *)
(***************************************************************************)
MAX_TOKENS == 3000          \* chunksToText's default maxTokens
DefaultMaxTokens == 3500    \* DocumentStringBuilder's default maxTokens

None == "<None>"

(***************************************************************************)
(* countTokens: len(oiaEncoding.encode(string)) for cl100k_base, on the    *)
(* texts of the model.  Each text below is made of one-token words.        *)
(***************************************************************************)
\* oiaEncoding.encode raises TypeError on a value that is no str
countTokensRaises(string) == string = None

countTokens(string) ==
    CASE string = ""    -> 0
      [] string = "x"   -> 1
      [] string = "x y" -> 2
      [] string = "a"   -> 1
      [] string = "a b" -> 2
      [] string = "h"   -> 1

\* str.upper() on the titles of the model
upper(string) ==
    CASE string = "a"   -> "A"
      [] string = "a b" -> "A B"

\* Chunk records that differ in what they cost: the budget runs draw from these.
BudgetChunks ==
    [documentId : {"0"}, documentTitle : {"a", "a b"}, header : {None, "h"},
     content : {"", "x"}, chunkNumber : {1}]
    \cup
    [documentId : {"1"}, documentTitle : {"a"}, header : {None, "h"},
     content : {"", "x"}, chunkNumber : {1}]

\* Chunk records that differ in where they are rendered: the render runs draw from these.
RenderChunks ==
    [documentId : {"0"}, documentTitle : {"a"}, header : {None, "", "h"},
     content : {"x"}, chunkNumber : {0, 1, 2, 4}]
    \cup
    [documentId : {"1"}, documentTitle : {"a"}, header : {None, "h"},
     content : {"x"}, chunkNumber : {1, 2}]

\* Chunk records whose content or documentTitle is None, next to well-formed ones.
MalformedChunks ==
    [documentId : {"0", "1"}, documentTitle : {"a", None}, header : {None},
     content : {"x"}, chunkNumber : {1}]
    \cup
    [documentId : {"0"}, documentTitle : {"a", None}, header : {None},
     content : {None}, chunkNumber : {2}]

\* Chunk records for two calls that run side by side: both draw from these.
PairChunks == {c \in BudgetChunks : c.header = None /\ c.content = "x"}

\* the chunk records of a corpus
Chunks(c) ==
    CASE c = "budget"    -> BudgetChunks
      [] c = "pair"      -> PairChunks
      [] c = "render"    -> RenderChunks
      [] c = "malformed" -> MalformedChunks

(***************************************************************************)
(* dict helpers                                                            *)
(***************************************************************************)
\* documentId in self.documents
HasDocument(docs, documentId) == \E d \in 1..Len(docs) : docs[d].documentId = documentId

\* position of self.documents[documentId] in the dict
DocumentIndex(docs, documentId) == CHOOSE d \in 1..Len(docs) : docs[d].documentId = documentId

\* HasHeader that looks at the group added last only
HasHeaderLast(headers, header) == Len(headers) > 0 /\ headers[Len(headers)].key = header

\* header in self.documents[documentId]['headers']
HasHeader(headers, header) == \E h \in 1..Len(headers) : headers[h].key = header

HeaderIndex(headers, header) == CHOOSE h \in 1..Len(headers) : headers[h].key = header

(***************************************************************************)
(* DocumentStringBuilder.__init__                                          *)
(***************************************************************************)
NewBuilder(budget) == [maxTokens |-> budget, tokenCount |-> 0, documents |-> <<>>]

(***************************************************************************)
(* DocumentStringBuilder.addChunk, statement by statement.  self is the    *)
(* record [maxTokens, tokenCount, documents].                              *)
(***************************************************************************)
\* Overflows with the tokens already counted left out of the test
OverflowsIgnoringCount(self, content) == countTokens(content) > self.maxTokens

\* Overflows with >= for >
OverflowsInclusive(self, content) == countTokens(content) + self.tokenCount >= self.maxTokens

\* Overflows with one token of slack
OverflowsOffByOne(self, content) == countTokens(content) + self.tokenCount > self.maxTokens + 1

\* if chunkSize + self.tokenCount > self.maxTokens: raise OverflowError
Overflows(self, content) == countTokens(content) + self.tokenCount > self.maxTokens

\* WithDocument counting the title on every call, not only when the entry is added
WithDocumentAlwaysCounted(self, documentId, documentTitle) ==
    IF ~HasDocument(self.documents, documentId)
    THEN [self EXCEPT
            !.documents = Append(@, [documentId |-> documentId,
                                     documentTitle |-> documentTitle,
                                     insertOrder |-> Len(self.documents),
                                     headers |-> <<>>]),
            !.tokenCount = @ + countTokens(documentTitle)]
    ELSE [self EXCEPT !.tokenCount = @ + countTokens(documentTitle)]

\* WithDocument without its test: the entry is assigned on every call
WithDocumentUnguarded(self, documentId, documentTitle) ==
    IF ~HasDocument(self.documents, documentId)
    THEN [self EXCEPT
            !.documents = Append(@, [documentId |-> documentId,
                                     documentTitle |-> documentTitle,
                                     insertOrder |-> Len(self.documents),
                                     headers |-> <<>>]),
            !.tokenCount = @ + countTokens(documentTitle)]
    ELSE [self EXCEPT
            !.documents[DocumentIndex(self.documents, documentId)] =
                [documentId |-> documentId,
                 documentTitle |-> documentTitle,
                 insertOrder |-> Len(self.documents),
                 headers |-> <<>>],
            !.tokenCount = @ + countTokens(documentTitle)]

\* if documentId not in self.documents: add the entry and count the title
WithDocument(self, documentId, documentTitle) ==
    IF ~HasDocument(self.documents, documentId)
    THEN [self EXCEPT
            !.documents = Append(@, [documentId |-> documentId,
                                     documentTitle |-> documentTitle,
                                     insertOrder |-> Len(self.documents),
                                     headers |-> <<>>]),
            !.tokenCount = @ + countTokens(documentTitle)]
    ELSE self

\* self.documents[documentId] = {...}: the entry alone, before its title is counted
WithDocumentEntry(self, documentId, documentTitle) ==
    [self EXCEPT
        !.documents = Append(@, [documentId |-> documentId,
                                 documentTitle |-> documentTitle,
                                 insertOrder |-> Len(self.documents),
                                 headers |-> <<>>])]

\* if header is None: header = ''
NormalizeHeader(header) == IF header = None THEN "" ELSE header

\* if header not in ...['headers']: add the group and count the header
WithHeader(self, documentId, header) ==
    LET d == DocumentIndex(self.documents, documentId)
    IN  IF ~HasHeader(self.documents[d].headers, header)
        THEN [self EXCEPT
                !.documents[d].headers = Append(@, [key |-> header, header |-> header, chunks |-> <<>>]),
                !.tokenCount = @ + countTokens(header)]
        ELSE self

\* WithChunk assigning a one-element list where it should append
WithChunkReplacing(self, documentId, header, content, chunkNumber) ==
    LET d == DocumentIndex(self.documents, documentId)
        h == HeaderIndex(self.documents[d].headers, header)
    IN  [self EXCEPT
            !.documents[d].headers[h].chunks = <<[content |-> content, chunkNumber |-> chunkNumber]>>,
            !.tokenCount = @ + countTokens(content)]

\* ...['chunks'].append({...}); self.tokenCount += countTokens(content)
WithChunk(self, documentId, header, content, chunkNumber) ==
    LET d == DocumentIndex(self.documents, documentId)
        h == HeaderIndex(self.documents[d].headers, header)
    IN  [self EXCEPT
            !.documents[d].headers[h].chunks = Append(@, [content |-> content, chunkNumber |-> chunkNumber]),
            !.tokenCount = @ + countTokens(content)]

\* addChunk with the overflow test made after the document entry is added
addChunkLateCheck(self, documentId, documentTitle, header, content, chunkNumber) ==
    LET s1 == WithDocument(self, documentId, documentTitle)
        hd == NormalizeHeader(header)
        s2 == WithHeader(s1, documentId, hd)
        s3 == WithChunk(s2, documentId, hd, content, chunkNumber)
    IN  IF Overflows(s1, content)
        THEN [raised |-> "OverflowError", self |-> s1]
        ELSE [raised |-> "", self |-> s3]

\* The whole method: the exception raised ("" for a normal return) and the builder afterwards.
\* countTokens(content) is the first statement; countTokens(documentTitle) follows
\* the insertion of a new document's entry.
addChunk(self, documentId, documentTitle, header, content, chunkNumber) ==
    IF countTokensRaises(content)
    THEN [raised |-> "TypeError", self |-> self]
    ELSE IF Overflows(self, content)
    THEN [raised |-> "OverflowError", self |-> self]
    ELSE IF ~HasDocument(self.documents, documentId) /\ countTokensRaises(documentTitle)
    THEN [raised |-> "TypeError", self |-> WithDocumentEntry(self, documentId, documentTitle)]
    ELSE LET s1 == WithDocument(self, documentId, documentTitle)
             hd == NormalizeHeader(header)
             s2 == WithHeader(s1, documentId, hd)
             s3 == WithChunk(s2, documentId, hd, content, chunkNumber)
         IN  [raised |-> "", self |-> s3]

(***************************************************************************)
(* DocumentStringBuilder.__str__.  The method builds a list of lines; the  *)
(* model builds the same list, each line tagged with the place of the loop *)
(* nest that appended it (kind, document, header group, chunk), and the    *)
(* returned string is the lines' texts joined by "\n".                     *)
(***************************************************************************)
\* sorted(s, key=...): ascending and stable, as Python's sorted is; key[i] is
\* the key function's value on s[i]
sorted(s, key) ==
    LET Before(j, i) == key[j] < key[i] \/ (key[j] = key[i] /\ j < i)
        Rank(i) == Cardinality({j \in 1..Len(s) : Before(j, i)}) + 1
    IN  [p \in 1..Len(s) |-> s[CHOOSE i \in 1..Len(s) : Rank(i) = p]]

\* documents sorted by the value of documentId
DocumentKeyById(document) == IF document.documentId = "0" THEN 0 ELSE 1

\* key=lambda doc: doc[1]['insertOrder']
DocumentKey(document) == document.insertOrder

\* header groups sorted by their lowest chunkNumber
HeaderKeyLowest(header) ==
    CHOOSE n \in {header.chunks[k].chunkNumber : k \in 1..Len(header.chunks)} :
        \A k \in 1..Len(header.chunks) : n <= header.chunks[k].chunkNumber

\* key=lambda h: h[1]['chunks'][0]['chunkNumber']
HeaderKey(header) == header.chunks[1].chunkNumber

\* key=lambda chunk: chunk['chunkNumber']
ChunkKey(chunk) == chunk.chunkNumber

RECURSIVE Flatten(_)
Flatten(ss) == IF ss = <<>> THEN <<>> ELSE Head(ss) \o Flatten(Tail(ss))

Line(text, kind, documentId, header, chunkNumber) ==
    [text |-> text, kind |-> kind, documentId |-> documentId, header |-> header,
     chunkNumber |-> chunkNumber]

\* 'FINAL ' if documentId == '0' else ''
extra_hacky_final_word(documentId) == IF documentId = "0" THEN "FINAL " ELSE ""

\* "if header != '':" where header is the group's dict (h[1] of the sorted items),
\* never the header text: a dict is unequal to every str.
HeaderLineEmitted(header) == TRUE

\* "previousChunkNumber != 0 and chunk['chunkNumber'] != previousChunkNumber+1"
EllipsisEmitted(previousChunkNumber, chunkNumber) ==
    previousChunkNumber # 0 /\ chunkNumber # previousChunkNumber + 1

\* the inner loop over sorted(header['chunks']), previousChunkNumber starting at 0
ChunkLines(documentId, header) ==
    LET cs == sorted(header.chunks, [k \in 1..Len(header.chunks) |-> ChunkKey(header.chunks[k])])
        previousChunkNumber(k) == IF k = 1 THEN 0 ELSE cs[k - 1].chunkNumber
    IN  Flatten([k \in 1..Len(cs) |->
            (IF EllipsisEmitted(previousChunkNumber(k), cs[k].chunkNumber)
             THEN <<Line("...", "ellipsis", documentId, header.key, cs[k].chunkNumber)>>
             ELSE <<>>)
            \o <<Line(cs[k].content, "content", documentId, header.key, cs[k].chunkNumber)>>])

\* one iteration of the loop over the sorted header groups
HeaderLines(documentId, header) ==
    (IF HeaderLineEmitted(header)
     THEN <<Line(header.header \o ":", "header", documentId, header.key, -1)>>
     ELSE <<>>)
    \o ChunkLines(documentId, header)

\* one iteration of the loop over the sorted documents
DocumentLines(document) ==
    LET hs == sorted(document.headers,
                     [h \in 1..Len(document.headers) |-> HeaderKey(document.headers[h])])
    IN  <<Line("From document \"" \o extra_hacky_final_word(document.documentId)
                   \o upper(document.documentTitle) \o "\":",
               "title", document.documentId, "", -1)>>
        \o Flatten([h \in 1..Len(hs) |-> HeaderLines(document.documentId, hs[h])])
        \o <<Line("", "blank", document.documentId, "", -1)>>

\* the list "lines" when the loops are over
Lines(docs) ==
    LET ds == sorted(docs, [d \in 1..Len(docs) |-> DocumentKey(docs[d])])
    IN  Flatten([d \in 1..Len(ds) |-> DocumentLines(ds[d])])

\* '\n'.join(lines)
RECURSIVE join(_, _)
join(sep, lines) ==
    IF lines = <<>> THEN ""
    ELSE IF Len(lines) = 1 THEN lines[1].text
    ELSE lines[1].text \o sep \o join(sep, Tail(lines))

\* str(builder): the string, with the tagged lines it was joined from
str(self) == [lines |-> Lines(self.documents), text |-> join("\n", Lines(self.documents)), current |-> TRUE]

\* the builder after __str__, had the chunk lists been sorted in place
SelfAfterStrSortedInPlace(self) ==
    [self EXCEPT
        !.documents = [d \in 1..Len(self.documents) |->
            [self.documents[d] EXCEPT
                !.headers = [h \in 1..Len(self.documents[d].headers) |->
                    [self.documents[d].headers[h] EXCEPT
                        !.chunks = sorted(@, [k \in 1..Len(@) |-> ChunkKey(@[k])])]]]]]

\* the builder after __str__: sorted() returns new lists, nothing is assigned
SelfAfterStr(self) == self

NotRendered == [lines |-> <<>>, text |-> "", current |-> FALSE]

(***************************************************************************)
(* State machine.  A builder is used directly (any addChunk calls, also    *)
(* after an OverflowError, and str() at any time), or by chunksToText.     *)
(***************************************************************************)
Self == [maxTokens |-> maxTokens, tokenCount |-> tokenCount, documents |-> documents]

NoCall ==
    [made |-> FALSE, raised |-> "", tokenCount |-> 0, documents |-> <<>>,
     chunk |-> [documentId |-> "0", documentTitle |-> "a", header |-> None,
                content |-> "", chunkNumber |-> 0]]

\* All lists of at most n chunk records drawn from S
ListsUpTo(S, n) == UNION {[1..k -> S] : k \in 0..n}

\* no second chunksToText call, no runquery call
NoRun == [pc |-> "none"]
NoQuery == [pc |-> "none"]

InitBuilder(budget) ==
    /\ maxTokens = NewBuilder(budget).maxTokens
    /\ tokenCount = NewBuilder(budget).tokenCount
    /\ documents = NewBuilder(budget).documents
    /\ calls = 0
    /\ accepted = <<>>
    /\ last = NoCall
    /\ out = NotRendered

Init ==
    /\ corpus \in {"budget", "render"}
    /\ \E budget \in (IF corpus = "budget" THEN 1..MaxBudget ELSE {DefaultMaxTokens}) :
          InitBuilder(budget)
    /\ chunks = <<>>
    /\ idx = 1
    /\ pc = "builder"
    /\ other = NoRun
    /\ query = NoQuery

\* builder.addChunk(**chunk) and what the history records of it
Call(chunk) ==
    LET r == addChunk(Self, chunk.documentId, chunk.documentTitle, chunk.header,
                      chunk.content, chunk.chunkNumber)
    IN  /\ maxTokens' = r.self.maxTokens
        /\ tokenCount' = r.self.tokenCount
        /\ documents' = r.self.documents
        /\ calls' = calls + 1
        /\ accepted' = IF r.raised = "" THEN Append(accepted, chunk) ELSE accepted
        /\ last' = [made |-> TRUE, raised |-> r.raised, tokenCount |-> tokenCount,
                    documents |-> documents, chunk |-> chunk]
        /\ out' = NotRendered

\* a direct addChunk call; the caller catches an OverflowError and goes on
AddChunk ==
    /\ pc = "builder"
    /\ calls < MaxCalls
    /\ \E chunk \in Chunks(corpus) : Call(chunk)
    /\ UNCHANGED <<corpus, chunks, idx, pc, other, query>>

\* a direct str(builder)
Str ==
    /\ pc = "builder"
    /\ out' = str(Self)
    /\ LET self == SelfAfterStr(Self)
       IN  /\ maxTokens' = self.maxTokens
           /\ tokenCount' = self.tokenCount
           /\ documents' = self.documents
    /\ UNCHANGED <<corpus, calls, accepted, last, chunks, idx, pc, other, query>>

Next == AddChunk \/ Str

Spec == Init /\ [][Next]_vars

(***************************************************************************)
(* chunksToText(chunks, maxTokens)                                         *)
(***************************************************************************)
InitChunksToText ==
    /\ corpus = "budget"
    /\ chunks \in ListsUpTo(Chunks(corpus), MaxChunks)
    /\ \E budget \in 1..MaxBudget \cup {MAX_TOKENS} : InitBuilder(budget)
    /\ idx = 1
    /\ pc = "loop"
    /\ other = NoRun
    /\ query = NoQuery

\* "continue" for "break"
ExceptOverflowErrorContinue(i) == [pc |-> "loop", idx |-> i + 1]

\* "except OverflowError: break": where the loop goes from position i
ExceptOverflowError(i) == [pc |-> "render", idx |-> i]

\* one iteration of "for chunk in chunks"
ForChunk ==
    /\ pc = "loop"
    /\ idx <= Len(chunks)
    /\ Call(chunks[idx])
    /\ LET to == IF last'.raised = "OverflowError"
                 THEN ExceptOverflowError(idx)
                 ELSE IF last'.raised = ""
                 THEN [pc |-> "loop", idx |-> idx + 1]
                 ELSE [pc |-> "raised", idx |-> idx]   \* any other exception leaves chunksToText
       IN  pc' = to.pc /\ idx' = to.idx
    /\ UNCHANGED <<corpus, chunks, other, query>>

\* "return str(builder)", reached when the list is exhausted or by the break
Return ==
    /\ (pc = "loop" /\ idx > Len(chunks)) \/ pc = "render"
    /\ out' = str(Self)
    /\ pc' = "returned"
    /\ UNCHANGED <<maxTokens, tokenCount, documents, corpus, calls, accepted, last, chunks, idx,
                   other, query>>

NextChunksToText == ForChunk \/ Return

SpecChunksToText == InitChunksToText /\ [][NextChunksToText]_vars

\* chunksToText as a function of its arguments: the for loop from position i on,
\* left by the break or by an exception that is not caught
RECURSIVE Loop(_, _, _)
Loop(self, list, i) ==
    IF i > Len(list) THEN [raised |-> "", self |-> self]
    ELSE LET r == addChunk(self, list[i].documentId, list[i].documentTitle, list[i].header,
                           list[i].content, list[i].chunkNumber)
         IN  IF r.raised = "OverflowError" THEN [raised |-> "", self |-> r.self]
             ELSE IF r.raised # "" THEN r
             ELSE Loop(r.self, list, i + 1)

\* the value chunksToText returns, with the builder it was rendered from
chunksToText(list, budget) ==
    LET l == Loop(NewBuilder(budget), list, 1)
    IN  IF l.raised # ""
        THEN [raised |-> l.raised, text |-> "", self |-> l.self]
        ELSE [raised |-> "", text |-> str(l.self).text, self |-> l.self]

(***************************************************************************)
(* Two chunksToText calls whose steps interleave, as two requests served   *)
(* at once.  The first call is the one of ForChunk and Return; the second  *)
(* keeps its local builder, list and position in the record "other".       *)
(***************************************************************************)
PairBudgets == {MaxBudget - 1, MaxBudget}

\* the second call's builder, had documents been one dict shared by all builders
SelfOtherSharedDocuments ==
    [maxTokens |-> other.maxTokens, tokenCount |-> other.tokenCount, documents |-> documents]

\* the second call's builder: self.documents = {} in __init__ is its own dict
SelfOther ==
    [maxTokens |-> other.maxTokens, tokenCount |-> other.tokenCount,
     documents |-> other.documents]

\* the first call is under way: it has offered a chunk and has not returned
UnderWay == calls > 0 /\ pc # "returned"

InitPair ==
    /\ corpus = "pair"
    /\ chunks \in ListsUpTo(Chunks(corpus), MaxChunks - 1)
    /\ \E budget \in PairBudgets : InitBuilder(budget)
    /\ idx = 1
    /\ pc = "loop"
    /\ \E budget \in PairBudgets : \E list \in ListsUpTo(Chunks(corpus), MaxChunks - 1) :
          other = [pc |-> "loop", chunks |-> list, idx |-> 1, text |-> "", between |-> FALSE]
                      @@ NewBuilder(budget)
    /\ query = NoQuery

\* one iteration of the second call's loop
ForChunkOther ==
    /\ other.pc = "loop"
    /\ other.idx <= Len(other.chunks)
    /\ LET chunk == other.chunks[other.idx]
           r == addChunk(SelfOther, chunk.documentId, chunk.documentTitle, chunk.header,
                         chunk.content, chunk.chunkNumber)
           to == IF r.raised = "OverflowError"
                 THEN ExceptOverflowError(other.idx)
                 ELSE IF r.raised = ""
                 THEN [pc |-> "loop", idx |-> other.idx + 1]
                 ELSE [pc |-> "raised", idx |-> other.idx]
       IN  other' = [other EXCEPT !.maxTokens = r.self.maxTokens,
                                  !.tokenCount = r.self.tokenCount,
                                  !.documents = r.self.documents,
                                  !.pc = to.pc, !.idx = to.idx,
                                  !.between = @ \/ UnderWay]
    /\ UNCHANGED <<maxTokens, tokenCount, documents, corpus, calls, accepted, last, out, chunks,
                   idx, pc, query>>

\* the second call's "return str(builder)"
ReturnOther ==
    /\ (other.pc = "loop" /\ other.idx > Len(other.chunks)) \/ other.pc = "render"
    /\ other' = [other EXCEPT !.text = str(SelfOther).text, !.pc = "returned",
                              !.between = @ \/ UnderWay]
    /\ UNCHANGED <<maxTokens, tokenCount, documents, corpus, calls, accepted, last, out, chunks,
                   idx, pc, query>>

NextPair == ForChunk \/ Return \/ ForChunkOther \/ ReturnOther

SpecPair == InitPair /\ [][NextPair]_vars

(***************************************************************************)
(* runquery and its caller runbutton_click_helper.  The retrieval and the  *)
(* completion are external services: each answers or raises.               *)
(***************************************************************************)
\* the document ids behind each checkbox
document_groups ==
    << <<0>>, <<1, 5, 45>>, <<2>>, <<6>>, <<46>>,
       <<7, 8, 9, 10, 11, 12, 13, 14, 15, 16, 17, 18, 19, 20, 21, 22, 23, 24>>,
       <<35, 36, 37, 38, 39, 40, 41, 42, 43, 44>>,
       <<25, 26, 227, 28, 29, 30, 31, 32, 33, 34>> >>

\* checkbox indices count from 0
checkboxIndicestoDocumentIds(checkboxIndices) ==
    Flatten([k \in 1..Len(checkboxIndices) |-> document_groups[checkboxIndices[k] + 1]])

\* the names the module binds at top level that runquery looks up as functions
ModuleNames ==
    {"countTokens", "checkboxIndicestoDocumentIds", "fetchchunks", "chunksToText",
     "fetchOpenaiCompletion", "runquery"}

\* the lists of ticked checkboxes Gradio passes
CheckboxLists == ListsUpTo(0..(Len(document_groups) - 1), MaxChunks - 1)

\* values a function call leaves: a 2-tuple, or None when the body falls off its end
Pair(completion, chunksString) ==
    [kind |-> "tuple", completion |-> completion, chunksString |-> chunksString]
NoneValue == [kind |-> "None", completion |-> "", chunksString |-> ""]

\* the try block of runquery: the exception it ends with ("" for none) and the
\* value of its return statement.  found is the outcome of the retrieval (raised,
\* or the chunks it answers with) and answer the outcome of the completion
\* (raised, or the text of its first choice).
TryBlock(checkboxIndices, found, answer) ==
    LET documentIds == checkboxIndicestoDocumentIds(checkboxIndices)
    IN  IF "fetchChunks" \notin ModuleNames
        THEN [raised |-> "NameError", documentIds |-> documentIds, value |-> NoneValue]
        ELSE IF found.raised
        THEN [raised |-> "Exception", documentIds |-> documentIds, value |-> NoneValue]
        ELSE LET chunksString == chunksToText(found.chunks, MAX_TOKENS)
             IN  IF chunksString.raised # ""
                 THEN [raised |-> chunksString.raised, documentIds |-> documentIds,
                       value |-> NoneValue]
                 ELSE IF answer.raised
                 THEN [raised |-> "Exception", documentIds |-> documentIds,
                       value |-> NoneValue]
                 ELSE [raised |-> "", documentIds |-> documentIds,
                       value |-> Pair(answer.text, chunksString.text)]

\* runquery: the try block, and "except Exception" that logs and falls off the end
runquery(checkboxIndices, found, answer) ==
    LET t == TryBlock(checkboxIndices, found, answer)
    IN  IF t.raised = "" THEN t ELSE [t EXCEPT !.value = NoneValue]

\* what a call to an external service ends with: an exception, or one of values
\* under the given field
Outcomes(field, none, values) ==
    {[raised |-> TRUE] @@ (field :> none)} \cup {[raised |-> FALSE] @@ (field :> v) : v \in values}

InitRunquery ==
    /\ corpus = "budget"
    /\ maxTokens = MAX_TOKENS
    /\ tokenCount = 0
    /\ documents = <<>>
    /\ calls = 0
    /\ accepted = <<>>
    /\ last = NoCall
    /\ out = NotRendered
    /\ chunks = <<>>
    /\ idx = 1
    /\ pc = "new"
    /\ other = NoRun
    /\ \E checkboxIndices \in CheckboxLists :
       \E found \in Outcomes("chunks", <<>>, ListsUpTo(Chunks(corpus), 1)) :
       \E answer \in Outcomes("text", "", {"a"}) :
          query = [pc |-> "call", checkboxIndices |-> checkboxIndices, found |-> found,
                   answer |-> answer, raised |-> "", documentIds |-> <<>>,
                   value |-> NoneValue]

\* answer_value, sourcechunks_value = runquery(...): the call
Runquery ==
    /\ query.pc = "call"
    /\ LET r == runquery(query.checkboxIndices, query.found, query.answer)
       IN  query' = [query EXCEPT !.pc = "returned", !.raised = r.raised,
                                  !.documentIds = r.documentIds, !.value = r.value]
    /\ UNCHANGED <<maxTokens, tokenCount, documents, corpus, calls, accepted, last, out, chunks,
                   idx, pc, other>>

\* answer_value, sourcechunks_value = runquery(...): the unpacking of the value;
\* None cannot be unpacked, which raises TypeError in runbutton_click_helper
RunbuttonClickHelper ==
    /\ query.pc = "returned"
    /\ query' = [query EXCEPT !.pc = IF query.value.kind = "tuple" THEN "shown" ELSE "TypeError"]
    /\ UNCHANGED <<maxTokens, tokenCount, documents, corpus, calls, accepted, last, out, chunks,
                   idx, pc, other>>

NextRunquery == Runquery \/ RunbuttonClickHelper

SpecRunquery == InitRunquery /\ [][NextRunquery]_vars

(***************************************************************************)
(* chunksToText over lists that may hold records with a None field.        *)
(***************************************************************************)
InitMalformed ==
    /\ corpus = "malformed"
    /\ chunks \in ListsUpTo(Chunks(corpus), MaxChunks)
    /\ \E budget \in 1..MaxBudget \cup {MAX_TOKENS} : InitBuilder(budget)
    /\ idx = 1
    /\ pc = "loop"
    /\ other = NoRun
    /\ query = NoQuery

SpecMalformed == InitMalformed /\ [][NextChunksToText]_vars

(***************************************************************************)
(* Construction.  No builder exists in the initial state; one is made by   *)
(* DocumentStringBuilder(maxTokens) or by chunksToText(chunks, maxTokens), *)
(* with any integer the caller passes.                                     *)
(***************************************************************************)
ConstructBudgets == {-1, 0} \cup 1..MaxBudget

InitConstruct ==
    /\ corpus = "budget"
    /\ maxTokens = DefaultMaxTokens
    /\ tokenCount = 0
    /\ documents = <<>>
    /\ calls = 0
    /\ accepted = <<>>
    /\ last = NoCall
    /\ out = NotRendered
    /\ chunks = <<>>
    /\ idx = 1
    /\ pc = "new"
    /\ other = NoRun
    /\ query = NoQuery

\* builder = DocumentStringBuilder(maxTokens): __init__ stores the argument
Construct ==
    /\ pc = "new"
    /\ \E budget \in ConstructBudgets :
          LET self == NewBuilder(budget)
          IN  /\ maxTokens' = self.maxTokens
              /\ tokenCount' = self.tokenCount
              /\ documents' = self.documents
    /\ pc' = "builder"
    /\ UNCHANGED <<corpus, calls, accepted, last, out, chunks, idx, other, query>>

\* chunksToText(chunks, maxTokens) up to the head of its loop
CallChunksToText ==
    /\ pc = "new"
    /\ \E budget \in ConstructBudgets :
          LET self == NewBuilder(budget)
          IN  /\ maxTokens' = self.maxTokens
              /\ tokenCount' = self.tokenCount
              /\ documents' = self.documents
    /\ chunks' \in ListsUpTo(Chunks(corpus), MaxChunks - 1)
    /\ idx' = 1
    /\ pc' = "loop"
    /\ UNCHANGED <<corpus, calls, accepted, last, out, other, query>>

NextConstruct == Construct \/ CallChunksToText \/ AddChunk \/ Str \/ ForChunk \/ Return

SpecConstruct == InitConstruct /\ [][NextConstruct]_vars

(***************************************************************************)
(* Costs, as the specification words them, computed from the chunk record  *)
(* and the documents the builder held when the call was made.              *)
(***************************************************************************)
DocumentIsNew(docs, chunk) ==
    \A d \in 1..Len(docs) : docs[d].documentId # chunk.documentId

HeaderIsNew(docs, chunk) ==
    \A d \in 1..Len(docs) :
        docs[d].documentId = chunk.documentId =>
            \A h \in 1..Len(docs[d].headers) :
                docs[d].headers[h].key # NormalizeHeader(chunk.header)

TitleCost(docs, chunk) ==
    IF DocumentIsNew(docs, chunk) THEN countTokens(chunk.documentTitle) ELSE 0

HeaderCost(docs, chunk) ==
    IF HeaderIsNew(docs, chunk) THEN countTokens(NormalizeHeader(chunk.header)) ELSE 0

IncrementalCost(docs, chunk) ==
    countTokens(chunk.content) + TitleCost(docs, chunk) + HeaderCost(docs, chunk)

FullCost(chunk) ==
    countTokens(chunk.content) + countTokens(chunk.documentTitle)
        + countTokens(NormalizeHeader(chunk.header))

Succeeded == last.made /\ last.raised = ""
Rejected == last.made /\ last.raised = "OverflowError"

(***************************************************************************)
(* C1                                                                      *)
(***************************************************************************)
\* C1 as stated: after each addChunk call that succeeds, tokenCount is at most
\* maxTokens.
C1_BudgetInvariant == Succeeded => tokenCount <= maxTokens

\* C1 as amended: after each addChunk call that succeeds, tokenCount exceeds
\* maxTokens by no more than the title and header costs that this call added
\* (the tokens counted before the call plus the content's fit the budget).
C1_BudgetUpToOverhead ==
    Succeeded =>
        /\ last.tokenCount + countTokens(last.chunk.content) <= maxTokens
        /\ tokenCount <= maxTokens + TitleCost(last.documents, last.chunk)
                                   + HeaderCost(last.documents, last.chunk)

\* a call succeeded and left tokenCount above maxTokens
C1_Witness == Succeeded /\ tokenCount > maxTokens /\ last.documents # <<>>

(***************************************************************************)
(* C2                                                                      *)
(***************************************************************************)
\* C2: when addChunk raises OverflowError, tokenCount and documents (the entries,
\* their titles and insertOrders, their header groups and chunk lists) are what
\* they were before the call.
C2_OverflowAtomic ==
    Rejected => tokenCount = last.tokenCount /\ documents = last.documents

\* a rejected chunk that would have added a document entry to a builder that
\* already holds one
C2_Witness ==
    /\ Rejected
    /\ documents # <<>>
    /\ DocumentIsNew(last.documents, last.chunk)
    /\ TitleCost(last.documents, last.chunk) > 0

(***************************************************************************)
(* C3                                                                      *)
(***************************************************************************)
\* C3 as stated: addChunk raises OverflowError exactly when tokenCount plus the
\* incremental cost (content, title of a new document, header new for the
\* document) exceeds maxTokens.
C3_OverflowRule ==
    last.made =>
        (last.raised = "OverflowError"
            <=> last.tokenCount + IncrementalCost(last.documents, last.chunk) > maxTokens)

\* C3 as amended: addChunk raises OverflowError exactly when tokenCount plus
\* count(content) exceeds maxTokens, and otherwise succeeds; the title and header
\* costs are no part of the test.
C3_OverflowRuleContentOnly ==
    last.made =>
        /\ last.raised \in {"", "OverflowError"}
        /\ last.raised = "OverflowError"
              <=> last.tokenCount + countTokens(last.chunk.content) > maxTokens

\* a call that succeeded with the content filling the budget exactly, although
\* the incremental cost did not fit
C3_Witness ==
    /\ Succeeded
    /\ last.tokenCount + IncrementalCost(last.documents, last.chunk) > maxTokens
    /\ last.tokenCount + countTokens(last.chunk.content) = maxTokens

(***************************************************************************)
(* C4                                                                      *)
(***************************************************************************)
FirstOfDocument(i) ==
    \A j \in 1..(i - 1) : accepted[j].documentId # accepted[i].documentId

FirstOfHeader(i) ==
    \A j \in 1..(i - 1) :
        ~(/\ accepted[j].documentId = accepted[i].documentId
          /\ NormalizeHeader(accepted[j].header) = NormalizeHeader(accepted[i].header))

RECURSIVE AccountedTokens(_)
AccountedTokens(n) ==
    IF n = 0 THEN 0
    ELSE AccountedTokens(n - 1)
         + countTokens(accepted[n].content)
         + (IF FirstOfDocument(n) THEN countTokens(accepted[n].documentTitle) ELSE 0)
         + (IF FirstOfHeader(n) THEN countTokens(NormalizeHeader(accepted[n].header)) ELSE 0)

\* C4: tokenCount is the sum of count(content) over the accepted fragments, plus
\* count(title) of the first accepted fragment of each documentId, plus
\* count(normalized header) once per (documentId, header); 0 for an empty builder.
C4_TokenAccounting == tokenCount = AccountedTokens(Len(accepted))

\* three accepted fragments of one document, the later ones with another title
\* than the first and one of them repeating a header that costs tokens
C4_Witness ==
    /\ Len(accepted) = 3
    /\ accepted[2].documentId = accepted[1].documentId
    /\ accepted[2].documentTitle # accepted[1].documentTitle
    /\ accepted[3].documentId = accepted[1].documentId
    /\ accepted[3].header = accepted[1].header
    /\ accepted[1].header = "h"
    /\ accepted[2].header = None
    /\ tokenCount > 0

(***************************************************************************)
(* C5                                                                      *)
(***************************************************************************)
\* the number of leading chunks of list, from position i on, that a builder in
\* state self accepts before the first one that raises
RECURSIVE AcceptedPrefix(_, _, _)
AcceptedPrefix(self, list, i) ==
    IF i > Len(list) THEN i - 1
    ELSE LET r == addChunk(self, list[i].documentId, list[i].documentTitle, list[i].header,
                           list[i].content, list[i].chunkNumber)
         IN  IF r.raised # "" THEN i - 1 ELSE AcceptedPrefix(r.self, list, i + 1)

\* the chunks of list that belong to one header group, in list order
GroupOf(list, documentId, header) ==
    LET sel == SelectSeq(list, LAMBDA c : c.documentId = documentId
                                          /\ NormalizeHeader(c.header) = header)
    IN  [k \in 1..Len(sel) |-> [content |-> sel[k].content, chunkNumber |-> sel[k].chunkNumber]]

\* docs holds the chunks of list, each in its group, and no others
HoldsExactly(docs, list) ==
    /\ \A d \in 1..Len(docs) : \A h \in 1..Len(docs[d].headers) :
          docs[d].headers[h].chunks = GroupOf(list, docs[d].documentId, docs[d].headers[h].key)
    /\ \A i \in 1..Len(list) : \E d \in 1..Len(docs) : \E h \in 1..Len(docs[d].headers) :
          /\ docs[d].documentId = list[i].documentId
          /\ docs[d].headers[h].key = NormalizeHeader(list[i].header)

ContentLines(lines) == {i \in 1..Len(lines) : lines[i].kind = "content"}

\* C5: when chunksToText returns, the builder holds exactly the chunks of the
\* input that precede the first chunk whose addChunk raises OverflowError, no
\* chunk after that one was offered to it, and the returned string has one
\* content line per chunk of that prefix.
C5_StopAtFirstOverflow ==
    pc = "returned" =>
        LET k == AcceptedPrefix(NewBuilder(maxTokens), chunks, 1)
        IN  /\ accepted = SubSeq(chunks, 1, k)
            /\ HoldsExactly(documents, SubSeq(chunks, 1, k))
            /\ calls = (IF k < Len(chunks) THEN k + 1 ELSE k)
            /\ out.current
            /\ Cardinality(ContentLines(out.lines)) = k

\* chunksToText has returned after an overflow at the second chunk, and a later
\* chunk of the input would have been accepted by the builder as it stands
C5_Witness ==
    /\ pc = "returned"
    /\ Len(accepted) = 1
    /\ Len(chunks) = 3
    /\ Rejected
    /\ last.chunk = chunks[2]
    /\ addChunk(Self, chunks[3].documentId, chunks[3].documentTitle, chunks[3].header,
                chunks[3].content, chunks[3].chunkNumber).raised = ""

(***************************************************************************)
(* C6                                                                      *)
(***************************************************************************)
\* the builder held at least one chunk when the latest call was made, and its
\* budget is the full cost of the first chunk it accepted
ExactBudgetThen ==
    /\ last.made
    /\ last.documents # <<>>
    /\ FullCost(accepted[1]) = maxTokens

\* the latest call offered a chunk of full cost maxTokens to an empty builder
ExactBudgetFirst ==
    /\ last.made
    /\ last.documents = <<>>
    /\ FullCost(last.chunk) = maxTokens

\* C6 as stated: a builder whose budget is the full cost of one fragment accepts
\* it, and afterwards rejects every fragment whose incremental cost (content,
\* title of a new document, header new for the document) is above zero.
C6_ExactBudget ==
    /\ ExactBudgetFirst => last.raised = ""
    /\ (ExactBudgetThen /\ IncrementalCost(last.documents, last.chunk) > 0)
          => last.raised = "OverflowError"

\* C6 as amended: a builder whose budget is the full cost of one fragment accepts
\* it, and afterwards rejects every fragment whose content has a token count
\* above zero.
C6_ExactBudgetContentOnly ==
    /\ ExactBudgetFirst => last.raised = ""
    /\ (ExactBudgetThen /\ countTokens(last.chunk.content) > 0)
          => last.raised = "OverflowError"

\* the budget was the full cost of the first chunk, which was accepted, and a
\* later chunk with content was rejected
C6_Witness ==
    /\ ExactBudgetThen
    /\ calls = 2
    /\ last.tokenCount = maxTokens
    /\ countTokens(last.chunk.content) > 0
    /\ Rejected

(***************************************************************************)
(* C7                                                                      *)
(***************************************************************************)
\* the position in accepted of the first fragment of a document
FirstArrival(documentId) ==
    CHOOSE i \in 1..Len(accepted) :
        accepted[i].documentId = documentId /\ FirstOfDocument(i)

\* C7: in the string str() returns, every line of a document whose first accepted
\* fragment came earlier precedes every line of a document whose first accepted
\* fragment came later.
C7_DocumentOrder ==
    out.current =>
        \A i \in 1..Len(out.lines) : \A j \in 1..Len(out.lines) :
            FirstArrival(out.lines[i].documentId) < FirstArrival(out.lines[j].documentId)
                => i < j

\* document "1" was seen first, document "0" second, then "1" again, and the
\* builder was rendered
C7_Witness ==
    /\ out.current
    /\ Len(accepted) = 3
    /\ accepted[1].documentId = "1"
    /\ accepted[2].documentId = "0"
    /\ accepted[3].documentId = "1"
    /\ out.lines[1].documentId = "1"

(***************************************************************************)
(* C8                                                                      *)
(***************************************************************************)
\* C8: str() emits a header line for a header group exactly when the group's
\* normalized header is not the empty string.
C8_NoHeaderLineSkipped ==
    out.current =>
        \A d \in 1..Len(documents) : \A h \in 1..Len(documents[d].headers) :
            (\E i \in 1..Len(out.lines) :
                /\ out.lines[i].kind = "header"
                /\ out.lines[i].documentId = documents[d].documentId
                /\ out.lines[i].header = documents[d].headers[h].key)
            <=> documents[d].headers[h].key # ""

(***************************************************************************)
(* C9                                                                      *)
(***************************************************************************)
\* the content lines of line i's header group that come before line i
EarlierOfGroup(lines, i) ==
    {p \in 1..(i - 1) :
        /\ lines[p].kind = "content"
        /\ lines[p].documentId = lines[i].documentId
        /\ lines[p].header = lines[i].header}

\* C9: for two consecutive fragments of a header group with distinct sequence
\* numbers (0 included), an ellipsis line stands right before the later
\* fragment's content exactly when the two numbers do not differ by 1; no
\* ellipsis stands before a group's first fragment.
C9_GapDetection ==
    out.current =>
        \A i \in ContentLines(out.lines) :
            LET E == EarlierOfGroup(out.lines, i)
                p == CHOOSE q \in E : \A r \in E : r <= q
            IN  IF E = {}
                THEN out.lines[i - 1].kind # "ellipsis"
                ELSE out.lines[p].chunkNumber < out.lines[i].chunkNumber =>
                         ((out.lines[i - 1].kind = "ellipsis")
                             <=> (out.lines[i].chunkNumber - out.lines[p].chunkNumber # 1))

(***************************************************************************)
(* C10                                                                     *)
(***************************************************************************)
\* the sequence number of the first accepted fragment of a header group
FirstArrivedNumber(documentId, header) ==
    LET i == CHOOSE k \in 1..Len(accepted) :
                 /\ accepted[k].documentId = documentId
                 /\ NormalizeHeader(accepted[k].header) = header
                 /\ FirstOfHeader(k)
    IN  accepted[i].chunkNumber

GroupLines(lines) == {i \in 1..Len(lines) : lines[i].kind \in {"header", "ellipsis", "content"}}

\* C10: within a document, the lines of a header group whose first-arrived
\* fragment has the lower sequence number precede the lines of a group whose
\* first-arrived fragment has the higher one.
C10_HeaderOrder ==
    out.current =>
        \A i \in GroupLines(out.lines) : \A j \in GroupLines(out.lines) :
            (/\ out.lines[i].documentId = out.lines[j].documentId
             /\ FirstArrivedNumber(out.lines[i].documentId, out.lines[i].header)
                  < FirstArrivedNumber(out.lines[j].documentId, out.lines[j].header))
                => i < j

\* a document whose group "h" arrived first with sequence number 4 and later got
\* number 1, and whose no-header group arrived with number 2: the no-header group
\* is rendered first although "h" holds the lowest number and was inserted first
C10_Witness ==
    /\ out.current
    /\ Len(accepted) = 3
    /\ \A k \in 1..3 : accepted[k].documentId = "0"
    /\ accepted[1].header = "h" /\ accepted[1].chunkNumber = 4
    /\ accepted[2].header = None /\ accepted[2].chunkNumber = 2
    /\ accepted[3].header = "h" /\ accepted[3].chunkNumber = 1
    /\ out.lines[2].header = ""

(***************************************************************************)
(* C11                                                                     *)
(***************************************************************************)
\* C11: a step that makes no addChunk call, that is a rendering, leaves the
\* budget, the token count and the stored documents as they were, and when the
\* builder had already been rendered since its last call the string is the same
\* again; a builder that holds no fragment renders as the empty string.
C11_RenderPure ==
    /\ [][calls' = calls =>
            /\ <<maxTokens, tokenCount, documents>>' = <<maxTokens, tokenCount, documents>>
            /\ out.current => out'.text = out.text]_vars
    /\ [](out.current /\ documents = <<>> => out.text = "")

\* a rendered builder one of whose groups holds its fragments in an arrival
\* order that is not the sequence-number order the rendering sorts them into
C11_Witness ==
    /\ out.current
    /\ \E d \in 1..Len(documents) : \E h \in 1..Len(documents[d].headers) :
          LET cs == documents[d].headers[h].chunks
          IN  Len(cs) = 3 /\ cs[1].chunkNumber > cs[2].chunkNumber

(***************************************************************************)
(* C12                                                                     *)
(***************************************************************************)
\* C12: once a builder has been constructed, directly or by chunksToText, its
\* budget is positive: a non-positive maxTokens never becomes a builder's budget.
C12_PositiveBudget == pc # "new" => maxTokens > 0

(***************************************************************************)
(* C13                                                                     *)
(***************************************************************************)
\* a record without content, or without a title for a document the builder has
\* no entry for
Malformed(docs, chunk) ==
    \/ chunk.content = None
    \/ chunk.documentTitle = None /\ ~HasDocument(docs, chunk.documentId)

\* C13: when chunksToText has offered a malformed record to addChunk, the call
\* raised an error other than OverflowError and chunksToText left with that
\* error: it neither broke out of its loop towards the rendering nor returned
\* a string.
C13_MalformedIsHardFailure ==
    (last.made /\ Malformed(last.documents, last.chunk)) =>
        /\ last.raised \notin {"", "OverflowError"}
        /\ pc = "raised"
        /\ ~out.current

(***************************************************************************)
(* C14                                                                     *)
(***************************************************************************)
\* C14: a runquery call that has returned has returned a 2-tuple, and
\* runbutton_click_helper unpacks it without an error; when neither service
\* raised, the tuple holds the answer and the chunksToText rendering of the
\* retrieved chunks.
C14_ReturnsPair ==
    /\ query.pc \in {"returned", "shown", "TypeError"} => query.value.kind = "tuple"
    /\ query.pc # "TypeError"
    /\ (/\ query.pc \in {"returned", "shown"}
        /\ ~query.found.raised
        /\ ~query.answer.raised)
           => query.value = Pair(query.answer.text,
                                 chunksToText(query.found.chunks, MAX_TOKENS).text)

(***************************************************************************)
(* C15                                                                     *)
(***************************************************************************)
\* C15: whatever the interleaving of two chunksToText calls, each call that has
\* returned has returned the string, and left its builder with the token count
\* and the documents, that the call yields on its own for its list and budget.
C15_IndependentRuns ==
    /\ pc = "returned" =>
          LET alone == chunksToText(chunks, maxTokens)
          IN  /\ out.text = alone.text
              /\ tokenCount = alone.self.tokenCount
              /\ documents = alone.self.documents
    /\ other.pc = "returned" =>
          LET alone == chunksToText(other.chunks, other.maxTokens)
          IN  /\ other.text = alone.text
              /\ other.tokenCount = alone.self.tokenCount
              /\ other.documents = alone.self.documents

\* both calls have returned, the second one took a step while the first was
\* under way, and both ingested a fragment of the same document, the second
\* call's list going on to a fragment that no longer fits
C15_Witness ==
    /\ pc = "returned" /\ other.pc = "returned"
    /\ other.between
    /\ documents # <<>> /\ other.documents # <<>>
    /\ documents[1].documentId = other.documents[1].documentId
    /\ other.idx <= Len(other.chunks)

(***************************************************************************)
(* C16                                                                     *)
(***************************************************************************)
\* the documents with a fragment among the first n accepted ones
DocumentsAmong(n) == {accepted[j].documentId : j \in 1..n}

\* C16: after any calls, accepted or rejected, no two entries of documents have
\* the same documentId, the entries are those of the documents with an accepted
\* fragment, the k-th document to have a fragment accepted has insertOrder k-1
\* and the title of that first fragment; and no call changes the documentId,
\* the insertOrder or the title of an entry that exists.
C16_DocumentEntries ==
    /\ [](/\ \A i \in 1..Len(documents) : \A j \in 1..Len(documents) :
                documents[i].documentId = documents[j].documentId => i = j
           /\ {documents[k].documentId : k \in 1..Len(documents)}
                = DocumentsAmong(Len(accepted))
           /\ \A d \in 1..Len(documents) :
                LET first == FirstArrival(documents[d].documentId)
                IN  /\ documents[d].insertOrder = Cardinality(DocumentsAmong(first - 1))
                    /\ documents[d].documentTitle = accepted[first].documentTitle)
    /\ [][\A d \in 1..Len(documents) :
            \E e \in 1..Len(documents') :
                /\ documents'[e].documentId = documents[d].documentId
                /\ documents'[e].insertOrder = documents[d].insertOrder
                /\ documents'[e].documentTitle = documents[d].documentTitle]_vars

\* two documents are held, and the earlier one got a second fragment under
\* another title after the later one was created
C16_Witness ==
    /\ Len(documents) = 2
    /\ Len(accepted) = 3
    /\ accepted[1].documentId = accepted[3].documentId
    /\ accepted[1].documentId # accepted[2].documentId
    /\ accepted[1].documentTitle # accepted[3].documentTitle
    /\ documents[1].documentTitle = accepted[1].documentTitle

(***************************************************************************)
(* C17                                                                     *)
(***************************************************************************)
\* the key the specification gives a header: absent and empty are one key
CanonicalHeader(header) == IF header \in {None, ""} THEN "" ELSE header

\* the accepted fragments of a document with a canonical header, in arrival order
ArrivedUnder(documentId, key) ==
    LET sel == SelectSeq(accepted, LAMBDA c : c.documentId = documentId
                                              /\ CanonicalHeader(c.header) = key)
    IN  [k \in 1..Len(sel) |-> [content |-> sel[k].content, chunkNumber |-> sel[k].chunkNumber]]

\* an earlier accepted fragment has the document and canonical header of the
\* i-th accepted one
GroupExisted(i) ==
    \E j \in 1..(i - 1) :
        /\ accepted[j].documentId = accepted[i].documentId
        /\ CanonicalHeader(accepted[j].header) = CanonicalHeader(accepted[i].header)

\* C17: within each document no two groups have the same key and no key is
\* None; a group holds, in arrival order, exactly the accepted fragments of its
\* document whose header is its key, None counting as ""; every accepted
\* fragment has its group; and an accepted call adds the tokens of its header
\* only when no earlier accepted fragment had that document and header.
C17_HeaderGrouping ==
    /\ \A d \in 1..Len(documents) :
          LET headers == documents[d].headers
          IN  /\ \A h \in 1..Len(headers) : \A g \in 1..Len(headers) :
                    headers[h].key = headers[g].key => h = g
              /\ \A h \in 1..Len(headers) :
                    /\ headers[h].key # None
                    /\ headers[h].chunks = ArrivedUnder(documents[d].documentId, headers[h].key)
    /\ \A i \in 1..Len(accepted) :
          \E d \in 1..Len(documents) : \E h \in 1..Len(documents[d].headers) :
              /\ documents[d].documentId = accepted[i].documentId
              /\ documents[d].headers[h].key = CanonicalHeader(accepted[i].header)
    /\ Succeeded =>
          LET n == Len(accepted)
          IN  tokenCount = last.tokenCount
                              + countTokens(accepted[n].content)
                              + (IF FirstOfDocument(n)
                                 THEN countTokens(accepted[n].documentTitle) ELSE 0)
                              + (IF GroupExisted(n)
                                 THEN 0 ELSE countTokens(CanonicalHeader(accepted[n].header)))

\* one document took a fragment without header, then one under "h", then one
\* with the empty header: the first and the third share the one group ""
C17_Witness ==
    /\ Len(accepted) = 3
    /\ \A k \in 1..3 : accepted[k].documentId = "0"
    /\ accepted[1].header = None /\ accepted[2].header = "h" /\ accepted[3].header = ""
    /\ Len(documents[1].headers) = 2
    /\ Len(documents[1].headers[1].chunks) = 2
    /\ tokenCount = last.tokenCount + countTokens(accepted[3].content)

(***************************************************************************)
(* C18                                                                     *)
(***************************************************************************)
TitleLines(lines) == {i \in 1..Len(lines) : lines[i].kind = "title"}

\* the title line that the i-th line stands under: the last one before it
TitleAbove(lines, i) ==
    CHOOSE t \in TitleLines(lines) :
        t < i /\ \A u \in TitleLines(lines) : u < i => u <= t

\* C18: in the string str() returns, for every document and every content the
\* lines of that document with that content are as many as the accepted
\* fragments of the document with that content, so that each accepted fragment
\* has its line and no line comes from a rejected or unseen fragment; each
\* content line stands under a title line, and the nearest one above it is its
\* own document's; and each title line has a content line of its document
\* before the next title line.
C18_RenderComplete ==
    out.current =>
        /\ \A c \in Chunks(corpus) :
              Cardinality({i \in ContentLines(out.lines) :
                              /\ out.lines[i].documentId = c.documentId
                              /\ out.lines[i].text = c.content})
                = Cardinality({k \in 1..Len(accepted) :
                                  /\ accepted[k].documentId = c.documentId
                                  /\ accepted[k].content = c.content})
        /\ \A i \in ContentLines(out.lines) :
              /\ \E t \in TitleLines(out.lines) : t < i
              /\ out.lines[TitleAbove(out.lines, i)].documentId = out.lines[i].documentId
        /\ \A t \in TitleLines(out.lines) :
              \E i \in ContentLines(out.lines) :
                  /\ t < i
                  /\ TitleAbove(out.lines, i) = t
                  /\ out.lines[i].documentId = out.lines[t].documentId

\* a rendering of two documents after two accepted calls and a rejected one
C18_Witness ==
    /\ out.current
    /\ calls = 3
    /\ Len(accepted) = 2
    /\ Len(documents) = 2
    /\ Cardinality(ContentLines(out.lines)) = 2

====
